---- MODULE Spec2Model ----
(***************************************************************************)
(* SerialThread.run of spiflasher.py: one protocol operation (Detect,      *)
(* Read, Write or Erase) over a serial port, step by step.  Every          *)
(* transport or file call is one step; what the device answers, what the   *)
(* file holds and whether a call raises are chosen nondeterministically.   *)
(***************************************************************************)
EXTENDS Integers, Sequences, FiniteSets, TLC

(* ---------------- program constants ---------------- *)

\* bytes([0xAA]), the acknowledgement byte
ACK == 170

\* ser.read(min(4096, total - received))
ReadChunk == 4096

\* f.read(256)
WriteChunk == 256

(* ---------------- bounds of the model ---------------- *)

\* lengths 0..MaxSmall are tried one by one
MaxSmall == 2

\* lengths around k * chunk are tried for k in 1..MaxChunks
MaxChunks == 1

\* the count of data reads is kept up to MaxCount ("MaxCount or more")
MaxCount == 2

\* FlashUtility starts at most MaxOps threads
MaxOps == 3

(* ---------------- helpers ---------------- *)

Min(a, b) == IF a < b THEN a ELSE b

Commands == {"D", "R", "W", "E"}

\* ord() of the command byte written first
CommandByte(c) ==
  CASE c = "D" -> 68
    [] c = "R" -> 82
    [] c = "W" -> 87
    [] c = "E" -> 69

\* int.to_bytes(4, 'big')
ToBytesBE(n) ==
  << (n \div 16777216) % 256, (n \div 65536) % 256, (n \div 256) % 256, n % 256 >>

\* int.to_bytes(4, 'little')
ToBytesLE(n) ==
  << n % 256, (n \div 256) % 256, (n \div 65536) % 256, (n \div 16777216) % 256 >>

\* int.from_bytes(bs, 'little') of 4 bytes
FromBytesLE(bs) ==
  bs[1] + 256 * bs[2] + 65536 * bs[3] + 16777216 * bs[4]

\* The integers k <= 1000 for which the double computation (k/100)*100 falls
\* just short of k, so that int() truncates it to k - 1.
FloatShort ==
  { 29, 57, 58, 113, 114, 115, 116, 201, 203, 205, 207, 226, 228, 230, 232,
    251, 253, 255, 402, 406, 410, 414, 427, 431, 435, 439, 452, 456, 460,
    464, 477, 481, 485, 489, 502, 506, 510, 803, 804, 812, 820, 828, 829,
    837, 845, 853, 854, 862, 870, 878, 879, 887, 895, 903, 904, 912, 920,
    928, 929, 937, 945, 953, 954, 962, 970, 978, 979, 987, 995 }

\* int(x / t * 100) in IEEE double arithmetic, for 0 <= x, 0 < t < 2^32.
\* x / t is rounded to a double and so is the product with 100.  When
\* 100*x/t is no integer it is at least 1/t away from one, far more than the
\* rounding error, so the truncation is the exact floor.  When 100*x/t is an
\* integer k, the quotient is the double nearest k/100 and the result
\* depends on k alone: k when x/t is an integer, else k - 1 for the k of
\* FloatShort (e.g. int(29/100*100) = 28).
Pct(x, t) ==
  LET k == (100 * x) \div t IN
  IF (100 * x) % t = 0 /\ x % t # 0 /\ k \in FloatShort THEN k - 1 ELSE k

\* the lengths tried for a transfer done in pieces of `chunk` bytes
Lengths(chunk) ==
  (0 .. MaxSmall) \cup { k * chunk + d : k \in 1 .. MaxChunks, d \in {-1, 0, 1} }

\* what a device may answer to ser.read(req): nothing (timeout), one byte,
\* half of the request, all of it
DeviceSends(req) == { n \in {0, 1, req \div 2, req} : n <= req }

\* byte values a device may send where one byte is expected
ByteSamples == {0, ACK, 255}

\* ser.read(1): no byte (timeout) or one byte
OneByteReads == { <<>> } \cup { <<b>> : b \in ByteSamples }

JedecSamples == { <<239, 64, 21>>, <<239, 0, 0>>, <<194, 32, 22>>, <<0, 0, 0>> }

CapacitySamples == { 0, 1, 2 }

Prefixes(s) == { SubSeq(s, 1, n) : n \in 0 .. Len(s) }

\* ser.read(3) and ser.read(4) during Detect: any prefix of what is sent
JedecReads == UNION { Prefixes(j) : j \in JedecSamples }

CapacityReads == UNION { Prefixes(ToBytesLE(c)) : c \in CapacitySamples }

(* ---------------- events ---------------- *)

NoJedec == << >>

Finished == [kind |-> "finished", msg |-> "", jedec |-> NoJedec, capacity |-> -1]

Error(m) == [kind |-> "error", msg |-> m, jedec |-> NoJedec, capacity |-> -1]

DetectResult(j, c) == [kind |-> "detect_result", msg |-> "", jedec |-> j, capacity |-> c]

\* f"Port error: {str(e)}"
PortError(cause) == Error("Port error: " \o cause)

\* a terminal signal on its way to the slots connected by the handler that
\* started the thread with command cmd
Signal(cmd, e) == [cmd |-> cmd, ev |-> e]

(* ---------------- state ---------------- *)

VARIABLES
  command,        \* self.command
  flash_size,     \* self.flash_size (-1: None)
  srcLen,         \* Write: length of the file at self.file_path when it is opened
  pc,             \* position in run
  port,           \* "unopened", "open", "closed": the serial.Serial of the with block
  wire,           \* the request: the byte strings written before the data phase
  txPayload,      \* Write: payload bytes written to the transport
  nread,          \* ser.read calls that returned, per place in the code
  jedec,          \* Detect: jedec
  capacity_bytes, \* Detect: capacity_bytes
  ack1,           \* Read/Write: the ack read after the request
  ack2,           \* Write/Erase: the ack read at the end
  sinkLen,        \* Read: length of the destination file (-1: never opened)
  fpos,           \* Write: position in the source file
  total,          \* total
  received,       \* received
  sent,           \* sent
  chunk,          \* len(chunk)
  prevProg,       \* the progress value emitted before the last one (-1: none)
  lastProg,       \* the progress value emitted last (-1: none)
  terminals,      \* detect_result, finished and error events emitted, in order
  lateProgress,   \* a progress event was emitted after a terminal event
  raised,         \* the cause of the exception caught by run ("": none)
  \* FlashUtility (the progress bar is left out)
  capacity,         \* self.capacity
  manufacturer,     \* self.manufacturer
  part_number,      \* self.part_number
  jedec_id,         \* self.jedec_id
  lbl_manufacturer, \* self.lbl_manufacturer text
  lbl_capacity,     \* self.lbl_capacity text
  lbl_part,         \* self.lbl_part text
  lbl_jedec,        \* self.lbl_jedec text
  status,           \* self.status text
  port_combo,       \* self.port_combo.currentText()
  guiPc,            \* "idle", or the file dialog a handler is waiting in
  slotRaised,       \* the exception a slot of FlashUtility raised ("": none)
  \* the threads and their signals
  others,           \* the other SerialThreads still running, as saved states
  queue,            \* the signals emitted and not yet delivered, in order
  nStarted          \* SerialThreads started so far

\* the state of one SerialThread
threadVars ==
  << command, flash_size, srcLen, pc, port, wire, txPayload, nread, jedec,
     capacity_bytes, ack1, ack2, sinkLen, fpos, total, received, sent, chunk,
     prevProg, lastProg, terminals, lateProgress, raised >>

\* the state of FlashUtility and of the threads it has started
guiVars ==
  << capacity, manufacturer, part_number, jedec_id, lbl_manufacturer,
     lbl_capacity, lbl_part, lbl_jedec, status, port_combo, guiPc,
     slotRaised, others, nStarted >>

vars == << threadVars, guiVars, queue >>

\* what the operation did on the transport
ioVars == << wire, txPayload, nread >>

(* ---------------- FlashUtility: decoding a detect result ---------------- *)

\* MANUFACTURERS
MANUFACTURERS ==
  (239 :> "Winbond") @@ (194 :> "Macronix") @@ (32 :> "Micron")
    @@ (31 :> "Adesto/Atmel") @@ (191 :> "Microchip") @@ (28 :> "EON")
    @@ (157 :> "ISSI")

\* DEVICE_CAPACITY
DEVICE_CAPACITY ==
  (17 :> "512KB") @@ (18 :> "1MB") @@ (19 :> "2MB") @@ (20 :> "4MB")
    @@ (21 :> "8MB") @@ (22 :> "16MB") @@ (23 :> "32MB") @@ (24 :> "64MB")
    @@ (25 :> "128MB") @@ (64 :> "1MB") @@ (80 :> "2MB") @@ (96 :> "4MB")
    @@ (112 :> "8MB") @@ (128 :> "16MB") @@ (144 :> "32MB")

\* MANUFACTURERS.get(mfg_id, "Unknown")
ManufacturerOf(id) ==
  IF id \in DOMAIN MANUFACTURERS THEN MANUFACTURERS[id] ELSE "Unknown"

HexDigits ==
  << "0", "1", "2", "3", "4", "5", "6", "7", "8", "9", "A", "B", "C", "D", "E", "F" >>

\* f"{b:02X}" of a byte
Hex02(b) == HexDigits[(b \div 16) + 1] \o HexDigits[(b % 16) + 1]

\* f"{b:X}" of a byte
HexX(b) == IF b < 16 THEN HexDigits[b + 1] ELSE Hex02(b)

\* f"{mb:.1f}" for mb = c / (1024 * 1024): c / 2^20 is exact in a double, and
\* the format rounds it to one decimal, a tie going to the even digit
Fmt1(c) ==
  LET q == (c * 10) \div 1048576
      r == (c * 10) % 1048576
      t == IF r > 524288 \/ (r = 524288 /\ q % 2 = 1) THEN q + 1 ELSE q
  IN ToString(t \div 10) \o "." \o ToString(t % 10)

\* f"{jedec[0]:02X} {jedec[1]:02X} {jedec[2]:02X}"
JedecText(j) == Hex02(j[1]) \o " " \o Hex02(j[2]) \o " " \o Hex02(j[3])

\* the text set on lbl_capacity
CapacityText(c) == IF c = 0 THEN "Unknown" ELSE Fmt1(c) \o " MB"

\* process_detect reads the local mb where it was never assigned: the
\* Winbond branch with an unknown device id uses the mb of the branch
\* `else` of `if self.capacity == 0`
MbUnbound(j, c) ==
  /\ ManufacturerOf(j[1]) = "Winbond"
  /\ j[2] \notin DOMAIN DEVICE_CAPACITY
  /\ c = 0

\* the part number taken from the capacity code jedec[2] whatever the maker
PartNumberByCapacityCode(j, c) ==
  IF j[3] \in DOMAIN DEVICE_CAPACITY
    THEN DEVICE_CAPACITY[j[3]] \o " Chip"
    ELSE "Unknown (" \o Fmt1(IF c > 0 THEN c ELSE 0) \o "MB)"

\* self.part_number as process_detect computes it (when it gets that far)
PartNumber(j, c) ==
  IF ManufacturerOf(j[1]) = "Winbond"
    THEN IF j[2] \in DOMAIN DEVICE_CAPACITY
           THEN "W25Q" \o HexX(j[2]) \o " (" \o DEVICE_CAPACITY[j[2]] \o ")"
           ELSE "Unknown Winbond (" \o Fmt1(c) \o "MB)"
    ELSE IF j[3] \in DOMAIN DEVICE_CAPACITY
           THEN DEVICE_CAPACITY[j[3]] \o " Chip"
           ELSE "Unknown (" \o Fmt1(IF c > 0 THEN c ELSE 0) \o "MB)"

\* FlashUtility.process_detect(jedec, capacity)
process_detect(j, c) ==
  /\ jedec_id' = j
  /\ capacity' = c
  /\ manufacturer' = ManufacturerOf(j[1])
  /\ lbl_jedec' = JedecText(j)
  /\ lbl_manufacturer' = ManufacturerOf(j[1])
  /\ lbl_capacity' = CapacityText(c)
  /\ IF MbUnbound(j, c)
       THEN /\ slotRaised' = "UnboundLocalError"
            /\ UNCHANGED << part_number, lbl_part, status >>
       ELSE /\ part_number' = PartNumber(j, c)
            /\ lbl_part' = PartNumber(j, c)
            /\ status' = "Flash detected successfully"
            /\ UNCHANGED slotRaised

\* FlashUtility.show_error(message)
show_error(message) ==
  /\ status' = "Operation failed"

\* FlashUtility.__init__ and initUI, but for the port list
GuiConstructed ==
  /\ capacity = 0
  /\ manufacturer = "Unknown"
  /\ part_number = "Unknown"
  /\ jedec_id = << 0, 0, 0 >>
  /\ lbl_manufacturer = "Unknown"
  /\ lbl_capacity = "0 MB"
  /\ lbl_part = "Unknown"
  /\ lbl_jedec = "00 00 00"
  /\ status = "Disconnected"
  /\ guiPc = "idle"
  /\ slotRaised = ""
  /\ others = << >>
  /\ queue = << >>
  /\ nStarted = 0

ReadKinds == {"jedec", "capacity", "ack", "data", "wdone", "erase"}

\* SerialThread.__init__, together with the file the operation will meet
Init ==
  /\ command \in Commands
  /\ flash_size \in
       CASE command = "R" -> Lengths(ReadChunk)
         [] command = "W" -> Lengths(WriteChunk)
         [] OTHER -> {-1}
  /\ srcLen \in IF command = "W" THEN Lengths(WriteChunk) ELSE {-1}
  /\ pc = "start"
  /\ port = "unopened"
  /\ wire = << >>
  /\ txPayload = 0
  /\ nread = [k \in ReadKinds |-> 0]
  /\ jedec = << >>
  /\ capacity_bytes = << >>
  /\ ack1 = << >>
  /\ ack2 = << >>
  /\ sinkLen = -1
  /\ fpos = 0
  /\ total = -1
  /\ received = 0
  /\ sent = 0
  /\ chunk = 0
  /\ prevProg = -1
  /\ lastProg = -1
  /\ terminals = << >>
  /\ lateProgress = FALSE
  /\ raised = ""
  /\ GuiConstructed
  /\ port_combo = "COM1"

(* ---------------- pieces of run ---------------- *)

\* leaving the with block closes the port it opened
ReleaseLeak(p) == p

Release(p) == IF p = "open" THEN "closed" ELSE p

\* self.progress.emit(p)
EmitProgress(p) ==
  /\ prevProg' = lastProg
  /\ lastProg' = p
  /\ lateProgress' = (lateProgress \/ terminals # << >>)

\* a terminal event is emitted and run returns, leaving the with block
ReturnWith(e) ==
  /\ terminals' = Append(terminals, e)
  /\ queue' = Append(queue, Signal(command, e))
  /\ port' = Release(port)
  /\ pc' = "done"

\* an exception is swallowed without a word
RaiseSilent(cause) ==
  /\ raised' = cause
  /\ port' = Release(port)
  /\ pc' = "done"
  /\ UNCHANGED << terminals, queue >>

\* a call raises: the with block is left and `except Exception` reports it
Raise(cause) ==
  /\ raised' = cause
  /\ terminals' = Append(terminals, PortError(cause))
  /\ queue' = Append(queue, Signal(command, PortError(cause)))
  /\ port' = Release(port)
  /\ pc' = "done"

\* one more ser.read has returned at place k (the data reads are counted up
\* to MaxCount)
CountRead(k) ==
  nread' = [nread EXCEPT ![k] = IF k = "data" THEN Min(@ + 1, MaxCount) ELSE @ + 1]

\* ser.read(1) != bytes([0xAA]) negated
AckOkLenient(b) == b # << >>

AckOk(b) == b = << ACK >>

\* len(jedec) != 3 negated
JedecNonEmpty(j) == Len(j) > 0

JedecComplete(j) == Len(j) = 3

\* len(capacity_bytes) != 4 negated
CapacityComplete(bs) == Len(bs) = 4

\* min(4096, total - received)
ReadRequestUnclamped(tot, rec) == ReadChunk

ReadRequest(tot, rec) == Min(ReadChunk, tot - rec)

\* while received < total
MoreToReadInclusive(rec, tot) == rec <= tot

MoreToRead(rec, tot) == rec < tot

\* len(f.read(256)) of a regular file of length len at position pos
FileRead(len, pos) == Min(WriteChunk, len - pos)

\* the event that ends a Write, from its final ack
WriteOutcomeAlways(b) == Finished

WriteOutcome(b) == IF AckOk(b) THEN Finished ELSE Error("Write failed")

\* the event that ends an Erase, from its ack
EraseOutcomeAlways(b) == Finished

EraseOutcome(b) == IF AckOk(b) THEN Finished ELSE Error("Erase failed")

(* ---------------- the steps of run ---------------- *)

\* with serial.Serial(self.port, 500000, timeout=2) as ser
OpenPort ==
  /\ pc = "start"
  /\ \/ /\ port' = "open"
        /\ pc' = "cmd"
        /\ UNCHANGED << terminals, raised, queue >>
     \/ Raise("could not open port")
  /\ UNCHANGED << command, flash_size, srcLen, wire, txPayload, nread, jedec,
                  capacity_bytes, ack1, ack2, sinkLen, fpos, total, received,
                  sent, chunk, prevProg, lastProg, lateProgress >>
  /\ UNCHANGED guiVars

\* ser.write(b'D'), ser.write(b'R'), ser.write(b'W'), ser.write(b'E')
WriteCommand ==
  /\ pc = "cmd"
  /\ \/ /\ wire' = Append(wire, << CommandByte(command) >>)
        /\ pc' = CASE command = "D" -> "d_jedec"
                   [] command \in {"R", "W"} -> "hdr_zero"
                   [] command = "E" -> "e_ack"
        /\ UNCHANGED << port, terminals, raised, queue >>
     \/ Raise("write failed") /\ UNCHANGED wire
  /\ UNCHANGED << command, flash_size, srcLen, txPayload, nread, jedec,
                  capacity_bytes, ack1, ack2, sinkLen, fpos, total, received,
                  sent, chunk, prevProg, lastProg, lateProgress >>
  /\ UNCHANGED guiVars

\* ser.write(b'\x00\x00\x00\x00')
WriteReserved ==
  /\ pc = "hdr_zero"
  /\ \/ /\ wire' = Append(wire, << 0, 0, 0, 0 >>)
        /\ pc' = "hdr_len"
        /\ UNCHANGED << port, terminals, raised, queue >>
     \/ Raise("write failed") /\ UNCHANGED wire
  /\ UNCHANGED << command, flash_size, srcLen, txPayload, nread, jedec,
                  capacity_bytes, ack1, ack2, sinkLen, fpos, total, received,
                  sent, chunk, prevProg, lastProg, lateProgress >>
  /\ UNCHANGED guiVars

\* ser.write(self.flash_size.to_bytes(4, 'little'))
WriteLength ==
  /\ pc = "hdr_len"
  /\ \/ /\ wire' = Append(wire, ToBytesLE(flash_size))
        /\ pc' = "ack"
        /\ UNCHANGED << port, terminals, raised, queue >>
     \/ Raise("write failed") /\ UNCHANGED wire
  /\ UNCHANGED << command, flash_size, srcLen, txPayload, nread, jedec,
                  capacity_bytes, ack1, ack2, sinkLen, fpos, total, received,
                  sent, chunk, prevProg, lastProg, lateProgress >>
  /\ UNCHANGED guiVars

\* Detect: jedec = ser.read(3) and its length check
D_ReadJedec ==
  /\ pc = "d_jedec"
  /\ \/ \E j \in JedecReads :
          /\ jedec' = j
          /\ CountRead("jedec")
          /\ IF JedecComplete(j)
               THEN pc' = "d_cap" /\ UNCHANGED << port, terminals, queue >>
               ELSE ReturnWith(Error("JEDEC ID read failed"))
          /\ UNCHANGED raised
     \/ Raise("read failed") /\ UNCHANGED << jedec, nread >>
  /\ UNCHANGED << command, flash_size, srcLen, wire, txPayload,
                  capacity_bytes, ack1, ack2, sinkLen, fpos, total, received,
                  sent, chunk, prevProg, lastProg, lateProgress >>
  /\ UNCHANGED guiVars

\* Detect: capacity_bytes = ser.read(4), its length check, and the result
D_ReadCapacity ==
  /\ pc = "d_cap"
  /\ \/ \E bs \in CapacityReads :
          /\ capacity_bytes' = bs
          /\ CountRead("capacity")
          /\ IF CapacityComplete(bs)
               THEN ReturnWith(DetectResult(jedec, FromBytesLE(bs)))
               ELSE ReturnWith(Error("Capacity read failed"))
          /\ UNCHANGED raised
     \/ Raise("read failed") /\ UNCHANGED << capacity_bytes, nread >>
  /\ UNCHANGED << command, flash_size, srcLen, wire, txPayload, jedec,
                  ack1, ack2, sinkLen, fpos, total, received,
                  sent, chunk, prevProg, lastProg, lateProgress >>
  /\ UNCHANGED guiVars

\* Read and Write: if ser.read(1) != bytes([0xAA]): error "ACK failed"
ReadAck ==
  /\ pc = "ack"
  /\ \/ \E b \in OneByteReads :
          /\ ack1' = b
          /\ CountRead("ack")
          /\ IF AckOk(b)
               THEN /\ pc' = IF command = "R" THEN "r_open" ELSE "w_open"
                    /\ UNCHANGED << port, terminals, queue >>
               ELSE ReturnWith(Error("ACK failed"))
          /\ UNCHANGED raised
     \/ Raise("read failed") /\ UNCHANGED << ack1, nread >>
  /\ UNCHANGED << command, flash_size, srcLen, wire, txPayload, jedec,
                  capacity_bytes, ack2, sinkLen, fpos, total, received,
                  sent, chunk, prevProg, lastProg, lateProgress >>
  /\ UNCHANGED guiVars

\* Read: with open(self.file_path, 'wb') as f; total = self.flash_size;
\* received = 0
R_OpenFile ==
  /\ pc = "r_open"
  /\ \/ /\ sinkLen' = 0
        /\ total' = flash_size
        /\ received' = 0
        /\ pc' = "r_loop"
        /\ UNCHANGED << port, terminals, raised, queue >>
     \/ Raise("cannot open file") /\ UNCHANGED << sinkLen, total, received >>
  /\ UNCHANGED << command, flash_size, srcLen, wire, txPayload, nread, jedec,
                  capacity_bytes, ack1, ack2, fpos, sent, chunk, prevProg,
                  lastProg, lateProgress >>
  /\ UNCHANGED guiVars

\* Read: while received < total: chunk = ser.read(min(4096, total - received))
R_ReadChunk ==
  /\ pc = "r_loop"
  /\ MoreToRead(received, total)
  /\ \/ \E got \in DeviceSends(ReadRequest(total, received)) :
          /\ chunk' = got
          /\ CountRead("data")
          /\ pc' = "r_store"
          /\ UNCHANGED << port, terminals, raised, queue >>
     \/ Raise("read failed") /\ UNCHANGED << chunk, nread >>
  /\ UNCHANGED << command, flash_size, srcLen, wire, txPayload, jedec,
                  capacity_bytes, ack1, ack2, sinkLen, fpos, total, received,
                  sent, prevProg, lastProg, lateProgress >>
  /\ UNCHANGED guiVars

\* Read: f.write(chunk); received += len(chunk);
\* self.progress.emit(int(received / total * 100))
R_StoreChunk ==
  /\ pc = "r_store"
  /\ \/ /\ sinkLen' = sinkLen + chunk
        /\ received' = received + chunk
        /\ EmitProgress(Pct(received + chunk, total))
        /\ pc' = "r_loop"
        /\ UNCHANGED << port, terminals, raised, queue >>
     \/ /\ Raise("cannot write file")
        /\ UNCHANGED << sinkLen, received, prevProg, lastProg, lateProgress >>
  /\ UNCHANGED << command, flash_size, srcLen, wire, txPayload, nread, jedec,
                  capacity_bytes, ack1, ack2, fpos, total, sent, chunk >>
  /\ UNCHANGED guiVars

\* Read: the loop is over; self.finished.emit()
R_Finish ==
  /\ pc = "r_loop"
  /\ ~ MoreToRead(received, total)
  /\ ReturnWith(Finished)
  /\ UNCHANGED << command, flash_size, srcLen, wire, txPayload, nread, jedec,
                  capacity_bytes, ack1, ack2, sinkLen, fpos, total, received,
                  sent, chunk, prevProg, lastProg, lateProgress, raised >>
  /\ UNCHANGED guiVars

\* Write: with open(self.file_path, 'rb') as f; total = self.flash_size;
\* sent = 0
W_OpenFile ==
  /\ pc = "w_open"
  /\ \/ /\ fpos' = 0
        /\ total' = flash_size
        /\ sent' = 0
        /\ pc' = "w_loop"
        /\ UNCHANGED << port, terminals, raised, queue >>
     \/ Raise("cannot open file") /\ UNCHANGED << fpos, total, sent >>
  /\ UNCHANGED << command, flash_size, srcLen, wire, txPayload, nread, jedec,
                  capacity_bytes, ack1, ack2, sinkLen, received, chunk,
                  prevProg, lastProg, lateProgress >>
  /\ UNCHANGED guiVars

\* Write: while sent < total: chunk = f.read(256)
W_ReadFile ==
  /\ pc = "w_loop"
  /\ sent < total
  /\ \/ /\ chunk' = FileRead(srcLen, fpos)
        /\ fpos' = fpos + FileRead(srcLen, fpos)
        /\ pc' = "w_send"
        /\ UNCHANGED << port, terminals, raised, queue >>
     \/ Raise("cannot read file") /\ UNCHANGED << chunk, fpos >>
  /\ UNCHANGED << command, flash_size, srcLen, wire, txPayload, nread, jedec,
                  capacity_bytes, ack1, ack2, sinkLen, total, received, sent,
                  prevProg, lastProg, lateProgress >>
  /\ UNCHANGED guiVars

\* Write: ser.write(chunk); sent += len(chunk);
\* self.progress.emit(int(sent / total * 100))
W_SendChunk ==
  /\ pc = "w_send"
  /\ \/ /\ txPayload' = txPayload + chunk
        /\ sent' = sent + chunk
        /\ EmitProgress(Pct(sent + chunk, total))
        /\ pc' = "w_loop"
        /\ UNCHANGED << port, terminals, raised, queue >>
     \/ /\ Raise("write failed")
        /\ UNCHANGED << txPayload, sent, prevProg, lastProg, lateProgress >>
  /\ UNCHANGED << command, flash_size, srcLen, wire, nread, jedec,
                  capacity_bytes, ack1, ack2, sinkLen, fpos, total, received,
                  chunk >>
  /\ UNCHANGED guiVars

\* Write: the loop is over; if ser.read(1) == bytes([0xAA]): finished,
\* else error "Write failed"
W_FinalAck ==
  /\ pc = "w_loop"
  /\ ~ (sent < total)
  /\ \/ \E b \in OneByteReads :
          /\ ack2' = b
          /\ CountRead("wdone")
          /\ ReturnWith(WriteOutcome(b))
          /\ UNCHANGED raised
     \/ Raise("read failed") /\ UNCHANGED << ack2, nread >>
  /\ UNCHANGED << command, flash_size, srcLen, wire, txPayload, jedec,
                  capacity_bytes, ack1, sinkLen, fpos, total, received, sent,
                  chunk, prevProg, lastProg, lateProgress >>
  /\ UNCHANGED guiVars

\* Erase: if ser.read(1) == bytes([0xAA]): finished, else error "Erase failed"
E_ReadAck ==
  /\ pc = "e_ack"
  /\ \/ \E b \in OneByteReads :
          /\ ack2' = b
          /\ CountRead("erase")
          /\ ReturnWith(EraseOutcome(b))
          /\ UNCHANGED raised
     \/ Raise("read failed") /\ UNCHANGED << ack2, nread >>
  /\ UNCHANGED << command, flash_size, srcLen, wire, txPayload, jedec,
                  capacity_bytes, ack1, sinkLen, fpos, total, received, sent,
                  chunk, prevProg, lastProg, lateProgress >>
  /\ UNCHANGED guiVars

Next ==
  \/ OpenPort
  \/ WriteCommand
  \/ WriteReserved
  \/ WriteLength
  \/ D_ReadJedec
  \/ D_ReadCapacity
  \/ ReadAck
  \/ R_OpenFile
  \/ R_ReadChunk
  \/ R_StoreChunk
  \/ R_Finish
  \/ W_OpenFile
  \/ W_ReadFile
  \/ W_SendChunk
  \/ W_FinalAck
  \/ E_ReadAck

Spec == Init /\ [][Next]_vars

\* the worker thread keeps running while it has a step to take
FairSpec == Init /\ [][Next]_vars /\ WF_vars(Next)

(* ---------------- FlashUtility and its threads ---------------- *)

\* the state of the SerialThread whose steps are being taken
ThreadState ==
  [command |-> command, flash_size |-> flash_size, srcLen |-> srcLen, pc |-> pc,
   port |-> port, wire |-> wire, txPayload |-> txPayload, nread |-> nread,
   jedec |-> jedec, capacity_bytes |-> capacity_bytes, ack1 |-> ack1,
   ack2 |-> ack2, sinkLen |-> sinkLen, fpos |-> fpos, total |-> total,
   received |-> received, sent |-> sent, chunk |-> chunk, prevProg |-> prevProg,
   lastProg |-> lastProg, terminals |-> terminals,
   lateProgress |-> lateProgress, raised |-> raised]

\* SerialThread(port, cmd, file_path, size), not yet running; src is the
\* length the file at file_path will have when run opens it
NewThread(cmd, size, src) ==
  [command |-> cmd, flash_size |-> size, srcLen |-> src, pc |-> "start",
   port |-> "unopened", wire |-> << >>, txPayload |-> 0,
   nread |-> [k \in ReadKinds |-> 0], jedec |-> << >>,
   capacity_bytes |-> << >>, ack1 |-> << >>, ack2 |-> << >>, sinkLen |-> -1,
   fpos |-> 0, total |-> -1, received |-> 0, sent |-> 0, chunk |-> 0,
   prevProg |-> -1, lastProg |-> -1, terminals |-> << >>,
   lateProgress |-> FALSE, raised |-> ""]

\* self.serial_thread = None
NoThread == [NewThread("", -1, -1) EXCEPT !.pc = "idle"]

\* the steps taken from now on are those of the thread in state t
Install(t) ==
  /\ command' = t.command
  /\ flash_size' = t.flash_size
  /\ srcLen' = t.srcLen
  /\ pc' = t.pc
  /\ port' = t.port
  /\ wire' = t.wire
  /\ txPayload' = t.txPayload
  /\ nread' = t.nread
  /\ jedec' = t.jedec
  /\ capacity_bytes' = t.capacity_bytes
  /\ ack1' = t.ack1
  /\ ack2' = t.ack2
  /\ sinkLen' = t.sinkLen
  /\ fpos' = t.fpos
  /\ total' = t.total
  /\ received' = t.received
  /\ sent' = t.sent
  /\ chunk' = t.chunk
  /\ prevProg' = t.prevProg
  /\ lastProg' = t.lastProg
  /\ terminals' = t.terminals
  /\ lateProgress' = t.lateProgress
  /\ raised' = t.raised

\* a thread has been started and run has not returned yet
Running == pc \notin {"idle", "done"}

\* the threads started whose run has not returned
LiveThreads == Len(others) + (IF Running THEN 1 ELSE 0)

\* self.serial_thread = SerialThread(port, cmd, file_path, size);
\* self.serial_thread.start(): a thread running before goes on running, its
\* run keeps it
StartThread(cmd, size, src) ==
  /\ Install(NewThread(cmd, size, src))
  /\ others' = IF Running THEN Append(others, ThreadState) ELSE others
  /\ nStarted' = nStarted + 1

\* port_combo.currentText() after refresh_ports
PortTexts == {"", "COM1"}

\* FlashUtility.refresh_ports (the Refresh button)
refresh_ports ==
  /\ guiPc = "idle"
  /\ port_combo' \in PortTexts
  /\ UNCHANGED << threadVars, queue, capacity, manufacturer, part_number,
                  jedec_id, lbl_manufacturer, lbl_capacity, lbl_part,
                  lbl_jedec, status, guiPc, slotRaised, others,
                  nStarted >>

\* FlashUtility.detect_flash (the Detect Flash button)
detect_flash ==
  /\ guiPc = "idle"
  /\ nStarted < MaxOps
  /\ IF port_combo = ""
       THEN UNCHANGED << threadVars, others, nStarted >>
       ELSE StartThread("D", -1, -1)
  /\ UNCHANGED << queue, capacity, manufacturer, part_number, jedec_id,
                  lbl_manufacturer, lbl_capacity, lbl_part, lbl_jedec, status,
                  port_combo, guiPc, slotRaised >>

\* FlashUtility.erase_chip (the Erase Chip button)
erase_chip ==
  /\ guiPc = "idle"
  /\ nStarted < MaxOps
  /\ IF port_combo = ""
       THEN UNCHANGED << threadVars, others, nStarted >>
       ELSE StartThread("E", -1, -1)
  /\ UNCHANGED << queue, capacity, manufacturer, part_number, jedec_id,
                  lbl_manufacturer, lbl_capacity, lbl_part, lbl_jedec, status,
                  port_combo, guiPc, slotRaised >>

\* FlashUtility.read_flash (the Read Flash button) up to the file dialog:
\* the checks of self.capacity and of the port, then
\* QFileDialog.getSaveFileName, a modal dialog that runs the event loop
read_flash ==
  /\ guiPc = "idle"
  /\ nStarted < MaxOps
  /\ IF capacity = 0
       THEN UNCHANGED guiPc
       ELSE IF port_combo = ""
              THEN UNCHANGED guiPc
              ELSE guiPc' = "save_dialog"
  /\ UNCHANGED << threadVars, queue, capacity, manufacturer, part_number,
                  jedec_id, lbl_manufacturer, lbl_capacity, lbl_part,
                  lbl_jedec, status, port_combo, slotRaised, others,
                  nStarted >>

\* FlashUtility.read_flash from the return of the file dialog: nothing when
\* it was cancelled, else SerialThread(port, 'R', file_path, self.capacity)
read_flash_file ==
  /\ guiPc = "save_dialog"
  /\ guiPc' = "idle"
  /\ \/ UNCHANGED << threadVars, others, nStarted >>
     \/ StartThread("R", capacity, -1)
  /\ UNCHANGED << queue, capacity, manufacturer, part_number, jedec_id,
                  lbl_manufacturer, lbl_capacity, lbl_part, lbl_jedec, status,
                  port_combo, slotRaised >>

\* FlashUtility.write_flash (the Write Flash button) up to the file dialog
write_flash ==
  /\ guiPc = "idle"
  /\ nStarted < MaxOps
  /\ IF capacity = 0
       THEN UNCHANGED guiPc
       ELSE IF port_combo = ""
              THEN UNCHANGED guiPc
              ELSE guiPc' = "open_dialog"
  /\ UNCHANGED << threadVars, queue, capacity, manufacturer, part_number,
                  jedec_id, lbl_manufacturer, lbl_capacity, lbl_part,
                  lbl_jedec, status, port_combo, slotRaised, others,
                  nStarted >>

\* size > self.capacity
TooBig(size, cap) == size > cap

\* FlashUtility.write_flash from the return of the file dialog: nothing when
\* it was cancelled; else the size of the file is taken, a file larger than
\* self.capacity is refused, and SerialThread(port, 'W', file_path, size) is
\* started.  The file may have another length when the thread opens it.
write_flash_file ==
  /\ guiPc = "open_dialog"
  /\ guiPc' = "idle"
  /\ \/ UNCHANGED << threadVars, others, nStarted, slotRaised >>
     \/ /\ slotRaised' = "OSError"
        /\ UNCHANGED << threadVars, others, nStarted >>
     \/ \E size \in Lengths(WriteChunk) :
          IF TooBig(size, capacity)
            THEN UNCHANGED << threadVars, others, nStarted, slotRaised >>
            ELSE /\ \E src \in {size} \cup (0 .. MaxSmall) : StartThread("W", size, src)
                 /\ UNCHANGED slotRaised
  /\ UNCHANGED << queue, capacity, manufacturer, part_number, jedec_id,
                  lbl_manufacturer, lbl_capacity, lbl_part, lbl_jedec, status,
                  port_combo >>

\* the text set by the lambda connected to finished
CompleteText(cmd) ==
  CASE cmd = "R" -> "Read complete!"
    [] cmd = "W" -> "Write complete!"
    [] cmd = "E" -> "Chip erased!"
    [] OTHER -> status

\* the event loop calls the slot connected to the next signal of the queue:
\* process_detect for detect_result, show_error for error, the lambda of the
\* handler for finished (a Detect thread has none)
deliver ==
  /\ queue # << >>
  /\ queue' = Tail(queue)
  /\ LET sig == Head(queue) IN
       CASE sig.ev.kind = "detect_result" ->
              process_detect(sig.ev.jedec, sig.ev.capacity)
         [] sig.ev.kind = "error" ->
              /\ show_error(sig.ev.msg)
              /\ UNCHANGED << capacity, manufacturer, part_number, jedec_id,
                              lbl_manufacturer, lbl_capacity, lbl_part,
                              lbl_jedec, slotRaised >>
         [] sig.ev.kind = "finished" ->
              /\ status' = CompleteText(sig.cmd)
              /\ UNCHANGED << capacity, manufacturer, part_number, jedec_id,
                              lbl_manufacturer, lbl_capacity, lbl_part,
                              lbl_jedec, slotRaised >>
  /\ UNCHANGED << threadVars, port_combo, guiPc, others, nStarted >>

\* the scheduler turns to another running thread.  Threads share nothing but
\* the queue of signals, so every schedule leaves the window what a schedule
\* does that turns to another thread between two runs only
switch ==
  /\ others # << >>
  /\ pc \in {"start", "done"}
  /\ \E i \in DOMAIN others :
       /\ Install(others[i])
       /\ others' =
            IF Running
              THEN [others EXCEPT ![i] = ThreadState]
              ELSE SubSeq(others, 1, i - 1) \o SubSeq(others, i + 1, Len(others))
  /\ UNCHANGED << queue, capacity, manufacturer, part_number, jedec_id,
                  lbl_manufacturer, lbl_capacity, lbl_part, lbl_jedec, status,
                  port_combo, guiPc, slotRaised, nStarted >>

\* FlashUtility() with no thread yet; refresh_ports has filled the port list
AppInit ==
  /\ command = NoThread.command
  /\ flash_size = NoThread.flash_size
  /\ srcLen = NoThread.srcLen
  /\ pc = NoThread.pc
  /\ port = NoThread.port
  /\ wire = NoThread.wire
  /\ txPayload = NoThread.txPayload
  /\ nread = NoThread.nread
  /\ jedec = NoThread.jedec
  /\ capacity_bytes = NoThread.capacity_bytes
  /\ ack1 = NoThread.ack1
  /\ ack2 = NoThread.ack2
  /\ sinkLen = NoThread.sinkLen
  /\ fpos = NoThread.fpos
  /\ total = NoThread.total
  /\ received = NoThread.received
  /\ sent = NoThread.sent
  /\ chunk = NoThread.chunk
  /\ prevProg = NoThread.prevProg
  /\ lastProg = NoThread.lastProg
  /\ terminals = NoThread.terminals
  /\ lateProgress = NoThread.lateProgress
  /\ raised = NoThread.raised
  /\ GuiConstructed
  /\ port_combo \in PortTexts

AppNext ==
  \/ refresh_ports
  \/ detect_flash
  \/ erase_chip
  \/ read_flash
  \/ read_flash_file
  \/ write_flash
  \/ write_flash_file
  \/ deliver
  \/ switch
  \/ OpenPort
  \/ WriteCommand
  \/ WriteReserved
  \/ WriteLength
  \/ D_ReadJedec
  \/ D_ReadCapacity
  \/ ReadAck
  \/ R_OpenFile
  \/ R_ReadChunk
  \/ R_StoreChunk
  \/ R_Finish
  \/ W_OpenFile
  \/ W_ReadFile
  \/ W_SendChunk
  \/ W_FinalAck
  \/ E_ReadAck

\* the program: the window, the user, the threads and the device
AppSpec == AppInit /\ [][AppNext]_vars

\* bytes a JEDEC id is made of here: in and out of both tables
DecodeBytes == {0, 21, 64, 194, 239}

\* capacities handed to process_detect
DecodeCapacities == {0, 262144, 1048576}

\* the slot of detect_result is called with a 3-byte id and a capacity
on_detect_result ==
  /\ \E a \in DecodeBytes, b \in DecodeBytes, d \in DecodeBytes :
       \E c \in DecodeCapacities : process_detect(<< a, b, d >>, c)
  /\ UNCHANGED << threadVars, queue, port_combo, guiPc, others, nStarted >>

DecodeNext == on_detect_result

\* process_detect alone, on every id and capacity of the sets above
DecodeSpec == AppInit /\ [][DecodeNext]_vars

TypeOK ==
  /\ command \in Commands \cup {""}
  /\ port \in {"unopened", "open", "closed"}
  /\ nread \in [ReadKinds -> Nat]
  /\ txPayload \in Nat
  /\ sinkLen \in Int
  /\ received \in Nat
  /\ sent \in Nat
  /\ prevProg \in Int
  /\ lastProg \in Int
  /\ lateProgress \in BOOLEAN

(* ---------------- properties ---------------- *)

\* event e has been emitted as a terminal event
Emitted(e) == \E i \in DOMAIN terminals : terminals[i] = e

\* a step of run that reads from or writes to the transport
TransportStep ==
  \/ WriteCommand
  \/ WriteReserved
  \/ WriteLength
  \/ D_ReadJedec
  \/ D_ReadCapacity
  \/ ReadAck
  \/ R_ReadChunk
  \/ W_SendChunk
  \/ W_FinalAck
  \/ E_ReadAck

\* Never two terminal events, never a progress event after a terminal event,
\* and one terminal event once run has returned.  (The part of C1 that does
\* not depend on run returning.)
TerminalOnceAtReturn ==
  /\ Len(terminals) <= 1
  /\ ~ lateProgress
  /\ (pc = "done" => Len(terminals) = 1)

\* C1: every operation, whatever the device and the transport do, emits
\* exactly one terminal event (detect_result, finished or error), and nothing
\* - no progress event, no second terminal event - is emitted after it.
C1_ExactlyOneTerminalLast == <>[](Len(terminals) = 1 /\ ~ lateProgress)

\* C2: once started, run eventually emits a terminal event and returns, for
\* any device whose reads return 0..maxBytes bytes and any source file.
C2_RunTerminates == <>(pc = "done" /\ terminals # << >>)

\* C3: in a Read of N bytes the destination file never holds more than N
\* bytes, and it holds exactly N bytes whenever the Read emits finished.
C3_ReadSinkExact ==
  command = "R" =>
    /\ sinkLen <= flash_size
    /\ (Emitted(Finished) => sinkLen = flash_size)

\* a Read of more than one chunk has finished with its N bytes in the file
C3_Witness ==
  /\ command = "R"
  /\ flash_size = ReadChunk + 1
  /\ Emitted(Finished)
  /\ sinkLen = ReadChunk + 1

\* C4: in a Write of N bytes, for every length of the source file, the
\* payload written to the transport never exceeds N bytes, and it is exactly
\* N bytes when the transfer loop has ended.
C4_WritePayloadExact ==
  command = "W" =>
    /\ txPayload <= flash_size
    /\ (pc = "w_loop" /\ ~ (sent < total) => txPayload = flash_size)

\* C5: in a Read or Write every progress value is in 0..100, the values never
\* decrease, and the last one is 100 when the operation ends in finished
\* with a length above 0.
C5_ProgressInRange ==
  command \in {"R", "W"} =>
    /\ lastProg = -1 \/ lastProg \in 0 .. 100
    /\ prevProg <= lastProg
    /\ (Emitted(Finished) /\ flash_size > 0 => lastProg = 100)

\* C6: in a Read or Write whose first ack is missing or is not 0xAA, the
\* operation ends with error "ACK failed" and has no data phase: no other
\* transport read, no payload byte written, no progress event.
C6_BadAckNoData ==
  (command \in {"R", "W"} /\ nread["ack"] > 0 /\ ack1 # << ACK >>) =>
    /\ terminals = << Error("ACK failed") >>
    /\ pc = "done"
    /\ nread = [k \in ReadKinds |-> IF k = "ack" THEN 1 ELSE 0]
    /\ Len(wire) = 3
    /\ txPayload = 0
    /\ lastProg = -1
    /\ ~ ENABLED TransportStep

\* a Write whose request was answered with a byte that is not 0xAA
C6_Witness ==
  /\ command = "W"
  /\ flash_size > 0
  /\ srcLen = flash_size
  /\ ack1 = << 0 >>
  /\ Emitted(Error("ACK failed"))

\* C7: in a Write, once the payload has been transmitted exactly one final ack
\* is read; finished is emitted if and only if it is 0xAA, and any other byte
\* or no byte gives error "Write failed" though the payload was sent.
C7_WriteFinalAck ==
  command = "W" =>
    /\ nread["wdone"] <= 1
    /\ (pc = "done" /\ raised = "" /\ ack1 = << ACK >> => nread["wdone"] = 1)
    /\ (nread["wdone"] = 1 =>
          /\ txPayload >= flash_size
          /\ terminals =
               << IF ack2 = << ACK >> THEN Finished ELSE Error("Write failed") >>)
    /\ (Emitted(Finished) => nread["wdone"] = 1 /\ ack2 = << ACK >>)
    /\ (Emitted(Error("Write failed")) => nread["wdone"] = 1 /\ ack2 # << ACK >>)

\* a Write sent its whole payload and then got 0x00 as final ack
C7_Witness ==
  /\ command = "W"
  /\ flash_size = WriteChunk + 1
  /\ txPayload = flash_size
  /\ ack2 = << 0 >>
  /\ terminals = << Error("Write failed") >>

\* C8: in a Detect, fewer than 3 JEDEC bytes give error "JEDEC ID read failed"
\* and no capacity read; a complete JEDEC id with fewer than 4 capacity bytes
\* gives error "Capacity read failed"; a detect_result is emitted only when
\* both reads were complete, and not in the two failing cases.
C8_DetectShortReads ==
  command = "D" =>
    /\ (nread["jedec"] > 0 /\ Len(jedec) < 3 =>
          /\ terminals = << Error("JEDEC ID read failed") >>
          /\ nread["capacity"] = 0
          /\ ~ ENABLED TransportStep)
    /\ (nread["capacity"] > 0 =>
          /\ Len(jedec) = 3
          /\ terminals =
               << IF Len(capacity_bytes) < 4
                    THEN Error("Capacity read failed")
                    ELSE DetectResult(jedec, FromBytesLE(capacity_bytes)) >>)
    /\ \A i \in DOMAIN terminals :
         terminals[i].kind = "detect_result" =>
           Len(jedec) = 3 /\ Len(capacity_bytes) = 4

\* a Detect got 2 bytes of JEDEC id and stopped there
C8_Witness ==
  /\ command = "D"
  /\ Len(jedec) = 2
  /\ nread["capacity"] = 0
  /\ Emitted(Error("JEDEC ID read failed"))

\* C9: when opening the port, a write or a read raises, the operation stops
\* at once: no more transport I/O, the only terminal event is one error
\* "Port error: <cause>", and no finished or detect_result is emitted.
C9_ExceptionAborts ==
  raised # "" =>
    /\ terminals = << PortError(raised) >>
    /\ pc = "done"
    /\ ~ ENABLED TransportStep

\* a read raised in the middle of a Read, after progress had been reported
C9_Witness ==
  /\ command = "R"
  /\ raised = "read failed"
  /\ lastProg > 0
  /\ received > 0
  /\ terminals = << PortError("read failed") >>

\* C10: whenever run has returned, the port it opened is closed, and no
\* transport read or write happens once the port is released.
C10_PortReleased ==
  /\ (pc = "done" =>
        \/ port = "closed"
        \/ port = "unopened" /\ raised = "could not open port")
  /\ (port # "open" => ~ ENABLED TransportStep)

\* run returned through an exception raised while the port was open
C10_Witness ==
  /\ pc = "done"
  /\ port = "closed"
  /\ raised = "cannot write file"

\* C15: in an Erase exactly the byte 'E' is written and exactly one ack byte
\* is read; finished is emitted if and only if that byte is 0xAA, and any
\* other byte or no byte gives error "Erase failed".
C15_EraseAck ==
  command = "E" =>
    /\ wire \in { << >>, << << 69 >> >> }
    /\ txPayload = 0
    /\ nread["erase"] <= 1
    /\ \A k \in ReadKinds \ {"erase"} : nread[k] = 0
    /\ (pc = "done" /\ raised = "" => nread["erase"] = 1)
    /\ (nread["erase"] = 1 =>
          /\ wire = << << 69 >> >>
          /\ terminals =
               << IF ack2 = << ACK >> THEN Finished ELSE Error("Erase failed") >>)
    /\ (Emitted(Finished) => nread["erase"] = 1 /\ ack2 = << ACK >>)

\* an Erase whose ack never came
C15_Witness ==
  /\ command = "E"
  /\ nread["erase"] = 1
  /\ ack2 = << >>
  /\ terminals = << Error("Erase failed") >>

\* C16: a Read of 0 bytes whose request is acknowledged with 0xAA ends in
\* finished without entering the transfer loop: no data read after the ack,
\* no progress event, and a destination file of 0 bytes.
C16_ReadZero ==
  (command = "R" /\ flash_size = 0 /\ nread["ack"] > 0 /\ ack1 = << ACK >>) =>
    /\ nread["data"] = 0
    /\ lastProg = -1
    /\ pc \in {"r_open", "r_loop", "done"}
    /\ (pc = "r_loop" => sinkLen = 0 /\ ENABLED R_Finish /\ ~ ENABLED TransportStep)
    /\ (pc = "done" /\ raised = "" => terminals = << Finished >> /\ sinkLen = 0)

\* an acknowledged Read of 0 bytes has finished
C16_Witness ==
  /\ command = "R"
  /\ flash_size = 0
  /\ ack1 = << ACK >>
  /\ terminals = << Finished >>
  /\ sinkLen = 0

\* the number of ser.read calls that returned
ReadsMade == nread["jedec"] + nread["capacity"] + nread["ack"] + nread["data"]
               + nread["wdone"] + nread["erase"]

\* C17: one attempt per operation: the command byte and, for Read and Write,
\* the 4 zero bytes and the length in little-endian are written once, in that
\* order and before any read, and nothing is sent again after an error.
C17_SingleAttempt ==
  LET n == IF command \in {"R", "W"} THEN 3 ELSE 1 IN
    /\ Len(wire) <= n
    /\ (Len(wire) >= 1 => wire[1] = << CommandByte(command) >>)
    /\ (Len(wire) >= 2 => wire[2] = << 0, 0, 0, 0 >>)
    /\ (Len(wire) >= 3 =>
          /\ Len(wire[3]) = 4
          /\ \A i \in 1 .. 4 : wire[3][i] \in 0 .. 255
          /\ wire[3][1] + 256 * wire[3][2] + 65536 * wire[3][3]
               + 16777216 * wire[3][4] = flash_size)
    /\ (ReadsMade > 0 => Len(wire) = n)
    /\ ((\E i \in DOMAIN terminals : terminals[i].kind = "error") =>
          ~ ENABLED TransportStep)

\* a Read of 4097 bytes sent its request once and failed at the ack
C17_Witness ==
  /\ command = "R"
  /\ flash_size = ReadChunk + 1
  /\ wire = << << 82 >>, << 0, 0, 0, 0 >>, << 1, 16, 0, 0 >> >>
  /\ terminals = << Error("ACK failed") >>

\* C19: a Read that fails before its data phase (the port cannot be opened, a
\* write fails, the ack is missing or wrong) leaves the destination file
\* alone: the file is opened for writing only after the 0xAA ack.
C19_SinkUntouched ==
  command = "R" =>
    /\ (sinkLen # -1 => nread["ack"] = 1 /\ ack1 = << ACK >> /\ Len(wire) = 3)
    /\ (pc = "done" /\ ack1 # << ACK >> => sinkLen = -1)

\* a Read has failed on a write of its request, the file not touched
C19_Witness ==
  /\ command = "R"
  /\ raised = "write failed"
  /\ Len(wire) = 2
  /\ pc = "done"
  /\ sinkLen = -1

\* a SerialThread is started in this step
Started == nStarted' = nStarted + 1

\* C11: a SerialThread is never started while one started before has not
\* finished and released the port (all threads are on the one port COM1).
C11_OneInFlight == [][Started => LiveThreads = 0]_vars

\* C12: process_detect never raises, whatever the JEDEC id and the capacity.
C12_DecodeNeverRaises == slotRaised = ""

\* C13: a Read or a Write is started only when the capacity the window holds
\* is not zero, and a Write only when the length of the file is at most that
\* capacity; otherwise no thread is started.
C13_CheckedStart ==
  [][(Started /\ command' \in {"R", "W"}) =>
       /\ capacity # 0
       /\ (command' = "W" => flash_size' <= capacity)]_vars

\* C14: the flash_size given to a SerialThread with command 'R' or 'W' is
\* greater than zero.
C14_NonZeroLength ==
  [][(Started /\ command' \in {"R", "W"}) => flash_size' > 0]_vars

\* C18: the manufacturer is the entry of MANUFACTURERS for jedec[0], or
\* "Unknown"; the part number of a Winbond chip is built from the entry of
\* DEVICE_CAPACITY for jedec[1], that of any other chip from the entry for
\* jedec[2]; EF 40 15 is a Winbond with the label "1MB" of code 0x40.
C18_Decode ==
  /\ manufacturer =
       (IF jedec_id[1] \in DOMAIN MANUFACTURERS
          THEN MANUFACTURERS[jedec_id[1]] ELSE "Unknown")
  /\ lbl_manufacturer = manufacturer
  /\ (manufacturer = "Winbond" /\ jedec_id[2] \in DOMAIN DEVICE_CAPACITY) =>
       part_number =
         "W25Q" \o HexX(jedec_id[2]) \o " (" \o DEVICE_CAPACITY[jedec_id[2]] \o ")"
  /\ (manufacturer # "Winbond" /\ jedec_id[3] \in DOMAIN DEVICE_CAPACITY) =>
       part_number = DEVICE_CAPACITY[jedec_id[3]] \o " Chip"
  /\ jedec_id = << 239, 64, 21 >> =>
       (manufacturer = "Winbond" /\ part_number = "W25Q40 (1MB)")

\* EF 40 15 with 1 MB was decoded
C18_Witness ==
  /\ jedec_id = << 239, 64, 21 >>
  /\ capacity = 1048576
  /\ part_number = "W25Q40 (1MB)"
  /\ lbl_part = "W25Q40 (1MB)"
  /\ status = "Flash detected successfully"

\* the capacity of the last DetectResult emitted: that of the last one still
\* in the queue, or the one process_detect stored when none is waiting
LastDetected ==
  LET waiting == { i \in DOMAIN queue : queue[i].ev.kind = "detect_result" } IN
    IF waiting = {}
      THEN capacity
      ELSE queue[CHOOSE i \in waiting : \A k \in waiting : k <= i].ev.capacity

\* C20: the length a Read sends is the capacity of the last DetectResult
\* emitted, and the delivery of an error leaves self.capacity and
\* self.jedec_id as they were.
C20_ReadLengthDetected ==
  [][ /\ (pc = "hdr_len" /\ command = "R" /\ Len(wire') = 3) =>
           FromBytesLE(wire'[3]) = LastDetected
      /\ (queue # << >> /\ queue' = Tail(queue) /\ Head(queue).ev.kind = "error") =>
           UNCHANGED << capacity, jedec_id >> ]_vars

====
